---- MODULE Spec2Model ----
(***************************************************************************)
(* A model of offline_first_core: the LMDB-backed record store             *)
(* (src/src/local_db_state.rs), the record type (src/src/local_db_model.rs)*)
(* and the response protocol the FFI functions of src/src/lib.rs wrap      *)
(* every result in (src/src/app_response.rs).                              *)
(*                                                                         *)
(* The filesystem is a map from database directories to storage objects    *)
(* ("inodes"); an open LMDB environment keeps its storage object alive     *)
(* after the directory has been removed, as a memory-mapped file does.     *)
(***************************************************************************)
EXTENDS Integers, Sequences, FiniteSets, TLC

\* ------------------------------------------------------------ bounds
\* Number of distinct payloads (the `data` field) a caller may supply.
NumData == 2

\* Handle slots (addresses at which an AppDbState may live).
Handles == {"p1", "p2"}
\* Database names a caller may pass to init / reset_database.
Names == {"x", "y"}
\* Record ids, in LMDB key order; "" is the zero-length key LMDB rejects.
KeyOrder == <<"a", "b">>
Ids == {""} \cup {KeyOrder[n] : n \in 1..Len(KeyOrder)}
Hashes == {"h", "h2"}
Datas == 1..NumData
\* Threads that share one handle (an Arc<AppDbState>), one call each.
Threads == {"t1", "t2", "t3"}

\* ------------------------------------------------------------ constants
MAIN_DB_NAME == "main"
None == "None"
\* Path::exists() is false: no storage object is linked at the directory.
NoDir == 0
\* AppDbState.env is Option::None: no storage object is open.
NoEnv == 0

\* struct LocalDbModel { id, hash, data }
LocalDbModel == [id : Ids, hash : Hashes, data : Datas]

\* format!("{name}.lmdb")
DbDir(name) == name \o ".lmdb"
Dirs == {DbDir(n) : n \in Names}
Inodes == 1..(Cardinality(Names) + Cardinality(Handles))

\* Rust's Result / Option values
Ok(v) == [ok |-> TRUE, val |-> v]
Err(e) == [ok |-> FALSE, err |-> e]
Some(v) == <<v>>
NoneOpt == <<>>

EmptyTable == [k \in {} |-> <<>>]

VARIABLES
    fs,      \* directory -> storage object of the environment in it, or NoDir
    disk,    \* storage object -> named databases -> table (key -> bytes)
    live,    \* the AppDbState values that exist
    env,     \* AppDbState.env : the open environment's storage object, or NoEnv
    db,      \* AppDbState.db  : the database handle, or None
    path,    \* AppDbState.path
    wiped,   \* directories a reset away from them removed with records in
             \* them, and nothing has created again since
    last,    \* the last call made and what it returned
    pc,      \* thread -> where it is in the method it runs
    txn,     \* thread -> its transaction: the method, the argument, the
             \* table as the transaction sees it, what it will return
    writer,  \* the thread that holds the engine's write lock, or None
    commits  \* the committed tables since the threads were spawned

vars == <<fs, disk, live, env, db, path, wiped, last, pc, txn, writer, commits>>
\* The state of the threads.
tvars == <<pc, txn, writer, commits>>

\* ------------------------------------------------------------ records <-> bytes
\* serde_json::to_string(&model): the JSON object text, as its token sequence.
Serialize(model) ==
    <<"id", model.id, "hash", model.hash, "data", model.data>>

\* serde_json::from_str::<LocalDbModel>(json_str)
Deserialize(bytes) ==
    IF /\ Len(bytes) = 6
       /\ bytes[1] = "id" /\ bytes[3] = "hash" /\ bytes[5] = "data"
    THEN Ok([id |-> bytes[2], hash |-> bytes[4], data |-> bytes[6]])
    ELSE Err("SerdeError")

\* ------------------------------------------------------------ response protocol
LmdbErrors ==
    {"KeyExist", "NotFound", "PageNotFound", "Corrupted", "Panic",
     "VersionMismatch", "Invalid", "MapFull", "DbsFull", "ReadersFull",
     "TlsFull", "TxnFull", "CursorFull", "PageFull", "MapResized",
     "Incompatible", "BadRslot", "BadTxn", "BadValSize", "BadDbi",
     "Other(1)", "Other(2)"}

AppResponse ==
    {"DatabaseError", "SerializationError", "NotFound", "ValidationError",
     "BadRequest", "Ok"}

\* The conversion with KeyExist falling into the catch-all arm.
FromLmdbErrorKeyExistDatabase(err) ==
    CASE err = "NotFound" -> "NotFound"
      [] OTHER -> "DatabaseError"

\* impl From<LmdbError> for AppResponse
FromLmdbError(err) ==
    CASE err = "KeyExist" -> "BadRequest"
      [] err = "NotFound" -> "NotFound"
      [] OTHER -> "DatabaseError"

\* ------------------------------------------------------------ the engine
\* LMDB refuses a zero-length key (MDB_BAD_VALSIZE).
ValidKey(key) == key # ""

\* txn.get(db, &key)
TxnGet(tbl, key) ==
    IF ~ValidKey(key) THEN Err("BadValSize")
    ELSE IF key \in DOMAIN tbl THEN Ok(tbl[key])
    ELSE Err("NotFound")

\* txn.put as it would be with WriteFlags::NO_OVERWRITE.
TxnPutNoOverwrite(tbl, key, value) ==
    IF ~ValidKey(key) THEN Err("BadValSize")
    ELSE IF key \in DOMAIN tbl THEN Err("KeyExist")
    ELSE Ok([k \in DOMAIN tbl \cup {key} |-> IF k = key THEN value ELSE tbl[k]])

\* txn.put(db, &key, &value, WriteFlags::empty())
TxnPut(tbl, key, value) ==
    IF ~ValidKey(key) THEN Err("BadValSize")
    ELSE Ok([k \in DOMAIN tbl \cup {key} |-> IF k = key THEN value ELSE tbl[k]])

\* txn.del(db, &key, None)
TxnDel(tbl, key) ==
    IF ~ValidKey(key) THEN Err("BadValSize")
    ELSE IF key \in DOMAIN tbl THEN Ok([k \in DOMAIN tbl \ {key} |-> tbl[k]])
    ELSE Err("NotFound")

\* A cursor whose scan starts after the smallest key.
CursorKeysSkipFirst(tbl) ==
    SelectSeq(Tail(KeyOrder), LAMBDA k : k \in DOMAIN tbl)

\* cursor.iter(): the keys of the table in key order
CursorKeys(tbl) == SelectSeq(KeyOrder, LAMBDA k : k \in DOMAIN tbl)

\* ------------------------------------------------------------ AppDbState
\* env_db refusing a handle whose last call returned an error.
env_db_poisoned(h) ==
    IF env[h] = NoEnv THEN Err("Other(1)")
    ELSE IF db[h] = None THEN Err("Other(1)")
    ELSE IF last[2] = h /\ ~last[5].ok THEN Err("Other(1)")
    ELSE Ok(env[h])

\* fn env_db(&self): the open environment, or Other(1) once closed
env_db(h) ==
    IF env[h] = NoEnv THEN Err("Other(1)")
    ELSE IF db[h] = None THEN Err("Other(1)")
    ELSE Ok(env[h])

\* The table of the main database of the environment `h` has open.
TableOf(h) == disk[env[h]][MAIN_DB_NAME]

\* post with its write transaction dropped without commit.
post_txn_no_commit(tbl, model) ==
    LET p == TxnPut(tbl, model.id, Serialize(model))
    IN  IF p.ok
        THEN [ret |-> Ok(model), tbl |-> tbl]
        ELSE [ret |-> Err(FromLmdbError(p.err)), tbl |-> tbl]

\* post storing the record under its content hash.
post_txn_key_hash(tbl, model) ==
    LET p == TxnPut(tbl, model.hash, Serialize(model))
    IN  IF p.ok
        THEN [ret |-> Ok(model), tbl |-> p.val]
        ELSE [ret |-> Err(FromLmdbError(p.err)), tbl |-> tbl]

\* Each *_txn operator is the body of the method after env_db succeeded, run
\* on the table `tbl`: it yields the method's return value and the table as
\* committed (the unchanged `tbl` when the transaction is dropped).
post_txn(tbl, model) ==
    LET json == Serialize(model)
        p == TxnPut(tbl, model.id, json)
    IN  IF p.ok
        THEN [ret |-> Ok(model), tbl |-> p.val]
        ELSE [ret |-> Err(FromLmdbError(p.err)), tbl |-> tbl]

get_by_id_txn(tbl, id) ==
    LET g == TxnGet(tbl, id)
    IN  IF g.ok
        THEN LET m == Deserialize(g.val)
             IN  IF m.ok THEN Ok(Some(m.val)) ELSE Err("Other(1)")
        ELSE IF g.err = "NotFound" THEN Ok(NoneOpt)
        ELSE Err(g.err)

\* The scan failing as get_by_id does on a value it cannot decode.
get_txn_decode_fatal(tbl) ==
    LET keys == CursorKeys(tbl)
        decoded == [n \in 1..Len(keys) |-> Deserialize(tbl[keys[n]])]
    IN  IF \E n \in 1..Len(keys) : ~decoded[n].ok THEN Err("Other(1)")
        ELSE Ok([n \in 1..Len(keys) |-> decoded[n].val])

get_txn(tbl) ==
    LET keys == CursorKeys(tbl)
        decoded == [n \in 1..Len(keys) |-> Deserialize(tbl[keys[n]])]
        good == SelectSeq(decoded, LAMBDA r : r.ok)
    IN  Ok([n \in 1..Len(good) |-> good[n].val])

\* delete_by_id answering true whether or not the record existed.
delete_by_id_txn_always_true(tbl, id) ==
    LET d == TxnDel(tbl, id)
    IN  IF d.ok THEN [ret |-> Ok(TRUE), tbl |-> d.val]
        ELSE IF d.err = "NotFound" THEN [ret |-> Ok(TRUE), tbl |-> tbl]
        ELSE [ret |-> Err(d.err), tbl |-> tbl]

\* delete_by_id dropping the whole table when the record is there.
delete_by_id_txn_whole_table(tbl, id) ==
    LET g == TxnGet(tbl, id)
    IN  IF g.ok THEN [ret |-> Ok(TRUE), tbl |-> EmptyTable]
        ELSE IF g.err = "NotFound" THEN [ret |-> Ok(FALSE), tbl |-> tbl]
        ELSE [ret |-> Err(g.err), tbl |-> tbl]

\* delete_by_id with the existence check made and the delete left out.
delete_by_id_txn_no_del(tbl, id) ==
    LET g == TxnGet(tbl, id)
    IN  IF g.ok THEN [ret |-> Ok(TRUE), tbl |-> tbl]
        ELSE IF g.err = "NotFound" THEN [ret |-> Ok(FALSE), tbl |-> tbl]
        ELSE [ret |-> Err(g.err), tbl |-> tbl]

delete_by_id_txn(tbl, id) ==
    LET g == TxnGet(tbl, id)
    IN  IF g.ok
        THEN LET d == TxnDel(tbl, id)
             IN  IF d.ok THEN [ret |-> Ok(TRUE), tbl |-> d.val]
                 ELSE [ret |-> Err(d.err), tbl |-> tbl]
        ELSE IF g.err = "NotFound" THEN [ret |-> Ok(FALSE), tbl |-> tbl]
        ELSE [ret |-> Err(g.err), tbl |-> tbl]

\* put without its existence check: the record is written either way.
put_txn_upsert(tbl, model) ==
    LET p == TxnPut(tbl, model.id, Serialize(model))
    IN  IF p.ok THEN [ret |-> Ok(Some(model)), tbl |-> p.val]
        ELSE [ret |-> Err(p.err), tbl |-> tbl]

\* put keeping the stored hash and replacing only the payload.
put_txn_keep_hash(tbl, model) ==
    LET g == TxnGet(tbl, model.id)
    IN  IF g.ok
        THEN LET old == Deserialize(g.val).val
                 p == TxnPut(tbl, model.id,
                             Serialize([model EXCEPT !.hash = old.hash]))
             IN  IF p.ok THEN [ret |-> Ok(Some(model)), tbl |-> p.val]
                 ELSE [ret |-> Err(p.err), tbl |-> tbl]
        ELSE IF g.err = "NotFound" THEN [ret |-> Ok(NoneOpt), tbl |-> tbl]
        ELSE [ret |-> Err(g.err), tbl |-> tbl]

put_txn(tbl, model) ==
    LET g == TxnGet(tbl, model.id)
    IN  IF g.ok
        THEN LET p == TxnPut(tbl, model.id, Serialize(model))
             IN  IF p.ok THEN [ret |-> Ok(Some(model)), tbl |-> p.val]
                 ELSE [ret |-> Err(p.err), tbl |-> tbl]
        ELSE IF g.err = "NotFound" THEN [ret |-> Ok(NoneOpt), tbl |-> tbl]
        ELSE [ret |-> Err(g.err), tbl |-> tbl]

\* for key in keys { match txn.del(..) { Ok(_) => count += 1, Err(e) => warn } }
RECURSIVE ClearLoop(_, _, _)
ClearLoop(tbl, keys, count) ==
    IF keys = <<>> THEN [tbl |-> tbl, count |-> count]
    ELSE LET d == TxnDel(tbl, Head(keys))
         IN  IF d.ok THEN ClearLoop(d.val, Tail(keys), count + 1)
             ELSE ClearLoop(tbl, Tail(keys), count)

\* clear_all_records counting the keys listed and losing its deletes with a
\* transaction that is never committed.
clear_all_records_txn_no_commit(tbl) ==
    [ret |-> Ok(Len(CursorKeys(tbl))), tbl |-> tbl]

clear_all_records_txn(tbl) ==
    LET done == ClearLoop(tbl, CursorKeys(tbl), 0)
    IN  [ret |-> Ok(done.count), tbl |-> done.tbl]

\* ------------------------------------------------------------ storage
EmptyEnv == [n \in {} |-> EmptyTable]

\* Storage objects a directory or an open environment still refers to.
Referenced(f, e) == {f[d] : d \in DOMAIN f} \cup {e[h] : h \in DOMAIN e}

\* The storage of a removed directory goes away with its last open
\* environment (fs::remove_dir_all, drop(env)).
Reclaim(d, f, e) ==
    [i \in Inodes |-> IF i \in Referenced(f, e) THEN d[i] ELSE EmptyEnv]

\* fs::create_dir_all(path) on a path that does not exist: new, empty storage
FreshInode(f, e) ==
    CHOOSE i \in Inodes \ Referenced(f, e) :
        \A j \in Inodes \ Referenced(f, e) : i <= j

CreateDirAll(f, e, dir) ==
    IF f[dir] = NoDir THEN [f EXCEPT ![dir] = FreshInode(f, e)] ELSE f

\* remove_dir_all left out: the old directory stays in place.
RemoveDirAllKeep(f, dir) == f

\* if Path::new(&self.path).exists() { fs::remove_dir_all(&self.path)?; }
RemoveDirAll(f, dir) == [f EXCEPT ![dir] = NoDir]

\* What path.exists() finds for a directory, and whether a reset wiped it.
DirState(dir) ==
    IF fs[dir] # NoDir THEN "present"
    ELSE IF dir \in wiped THEN "wiped" ELSE "absent"

\* The main database created anew, empty, at every open.
OpenOrCreateDbTruncate(d, i) == [d EXCEPT ![i] = (MAIN_DB_NAME :> EmptyTable)]

\* env.open_db(Some(MAIN_DB_NAME)), and env.create_db(..) when it is absent:
\* either way the environment holds the main database afterwards, with the
\* records it already had.
OpenOrCreateDb(d, i) ==
    IF MAIN_DB_NAME \in DOMAIN d[i] THEN d
    ELSE [d EXCEPT ![i] = (MAIN_DB_NAME :> EmptyTable)]

\* A commit that reaches the main database of every environment.
CommitShared(h, tbl) ==
    [i \in Inodes |-> IF MAIN_DB_NAME \in DOMAIN disk[i]
                      THEN (MAIN_DB_NAME :> tbl) ELSE disk[i]]

\* The committed table written back to the environment `h` has open.
Commit(h, tbl) == [disk EXCEPT ![env[h]] = (MAIN_DB_NAME :> tbl)]

\* The handle is open on a store that holds at least one record.
HoldsRecords(h) == env_db(h).ok /\ DOMAIN TableOf(h) # {}

\* What each method returns when called in the current state.
post_ret(h, model) ==
    LET e == env_db(h)
    IN  IF e.ok THEN post_txn(TableOf(h), model).ret
        ELSE Err(FromLmdbError(e.err))

get_by_id_ret(h, id) ==
    LET e == env_db(h)
    IN  IF e.ok THEN get_by_id_txn(TableOf(h), id) ELSE Err(e.err)

get_ret(h) ==
    LET e == env_db(h)
    IN  IF e.ok THEN get_txn(TableOf(h)) ELSE Err(e.err)

delete_by_id_ret(h, id) ==
    LET e == env_db(h)
    IN  IF e.ok THEN delete_by_id_txn(TableOf(h), id).ret ELSE Err(e.err)

put_ret(h, model) ==
    LET e == env_db(h)
    IN  IF e.ok THEN put_txn(TableOf(h), model).ret ELSE Err(e.err)

clear_all_records_ret(h) ==
    LET e == env_db(h)
    IN  IF e.ok THEN clear_all_records_txn(TableOf(h)).ret ELSE Err(e.err)

\* close_database failing on a handle that is already closed.
close_database_ret_closed_err(h) ==
    IF env[h] = NoEnv THEN Err("Other(1)") ELSE Ok(TRUE)

\* close_database: if let Some(env) = self.env.take() { .. }; Ok(())
close_database_ret(h) == Ok(TRUE)

\* The record of a call: the method, the handle, the argument, what the call
\* found (the stored record under the id it names, the directory a reset left,
\* the state of the directory of an init) and what it returned.
Call(op, h, arg, pre, ret) == <<op, h, arg, pre, ret>>
OpOf(c) == c[1]
HandleOf(c) == c[2]
ParamOf(c) == c[3]
PreOf(c) == c[4]
RetOf(c) == c[5]

\* A transaction as a thread holds it.
Txn(op, arg, tbl, keys, count, ret, begun) ==
    <<op, arg, tbl, keys, count, ret, begun>>
TxnOp(x) == x[1]
TxnArg(x) == x[2]
TxnTbl(x) == x[3]
TxnKeys(x) == x[4]
TxnCount(x) == x[5]
TxnRet(x) == x[6]
TxnBegun(x) == x[7]
\* The method has not returned yet.
Pending == Err("pending")
\* The thread has not entered a method.
NoTxn == Txn(None, None, EmptyTable, <<>>, 0, Pending, 0)

\* ------------------------------------------------------------ initial state
Init ==
    /\ fs = [d \in Dirs |-> NoDir]
    /\ disk = [i \in Inodes |-> EmptyEnv]
    /\ live = {}
    /\ env = [h \in Handles |-> NoEnv]
    /\ db = [h \in Handles |-> None]
    /\ path = [h \in Handles |-> None]
    /\ wiped = {}
    /\ last = Call("start", None, None, None, Ok(TRUE))
    /\ pc = [t \in Threads |-> "idle"]
    /\ txn = [t \in Threads |-> NoTxn]
    /\ writer = None
    /\ commits = <<EmptyTable>>

\* ------------------------------------------------------------ operations
\* AppDbState::init(name)
init(h, name) ==
    /\ h \notin live
    /\ LET dir == DbDir(name)
           fs1 == CreateDirAll(fs, env, dir)
           i == fs1[dir]
       IN  /\ fs' = fs1
           /\ disk' = OpenOrCreateDb(disk, i)
           /\ env' = [env EXCEPT ![h] = i]
           /\ db' = [db EXCEPT ![h] = MAIN_DB_NAME]
           /\ path' = [path EXCEPT ![h] = dir]
           /\ wiped' = wiped \ {dir}
           /\ last' = Call("init", h, name, DirState(dir), Ok(TRUE))
    /\ live' = live \cup {h}

\* AppDbState::post(&self, model)
post(h, model) ==
    /\ h \in live
    /\ disk' = IF env_db(h).ok
               THEN Commit(h, post_txn(TableOf(h), model).tbl)
               ELSE disk
    /\ last' = Call("post", h, model, get_by_id_ret(h, model.id), post_ret(h, model))
    /\ UNCHANGED <<fs, live, env, db, path, wiped>>

\* AppDbState::get_by_id(&self, id)
get_by_id(h, id) ==
    /\ h \in live
    /\ last' = Call("get_by_id", h, id, None, get_by_id_ret(h, id))
    /\ UNCHANGED <<fs, disk, live, env, db, path, wiped>>

\* AppDbState::get(&self)
get(h) ==
    /\ h \in live
    /\ last' = Call("get", h, None, None, get_ret(h))
    /\ UNCHANGED <<fs, disk, live, env, db, path, wiped>>

\* AppDbState::delete_by_id(&self, id)
delete_by_id(h, id) ==
    /\ h \in live
    /\ disk' = IF env_db(h).ok
               THEN Commit(h, delete_by_id_txn(TableOf(h), id).tbl)
               ELSE disk
    /\ last' = Call("delete_by_id", h, id, get_by_id_ret(h, id),
                    delete_by_id_ret(h, id))
    /\ UNCHANGED <<fs, live, env, db, path, wiped>>

\* AppDbState::put(&self, model)
put(h, model) ==
    /\ h \in live
    /\ disk' = IF env_db(h).ok
               THEN Commit(h, put_txn(TableOf(h), model).tbl)
               ELSE disk
    /\ last' = Call("put", h, model, get_by_id_ret(h, model.id), put_ret(h, model))
    /\ UNCHANGED <<fs, live, env, db, path, wiped>>

\* AppDbState::clear_all_records(&self)
clear_all_records(h) ==
    /\ h \in live
    /\ disk' = IF env_db(h).ok
               THEN Commit(h, clear_all_records_txn(TableOf(h)).tbl)
               ELSE disk
    /\ last' = Call("clear_all_records", h, None, None, clear_all_records_ret(h))
    /\ UNCHANGED <<fs, live, env, db, path, wiped>>

\* AppDbState::close_database(&mut self)
close_database(h) ==
    /\ h \in live
    /\ env' = [env EXCEPT ![h] = NoEnv]
    /\ db' = [db EXCEPT ![h] = None]
    /\ disk' = Reclaim(disk, fs, env')
    /\ last' = Call("close_database", h, None, env_db(h).ok, close_database_ret(h))
    /\ UNCHANGED <<fs, live, path, wiped>>

\* AppDbState::reset_database(&mut self, name)
reset_database(h, name) ==
    /\ h \in live
    /\ LET env1 == [env EXCEPT ![h] = NoEnv]          \* self.close_database()?
           fs1 == RemoveDirAll(fs, path[h])
           new_db_dir == DbDir(name)
           fs2 == CreateDirAll(fs1, env1, new_db_dir)
           i == fs2[new_db_dir]
       IN  /\ fs' = fs2
           /\ env' = [env1 EXCEPT ![h] = i]
           /\ db' = [db EXCEPT ![h] = MAIN_DB_NAME]
           /\ path' = [path EXCEPT ![h] = new_db_dir]
           /\ disk' = OpenOrCreateDb(Reclaim(disk, fs1, env1), i)
           /\ wiped' = (IF new_db_dir # path[h] /\ HoldsRecords(h)
                        THEN wiped \cup {path[h]} ELSE wiped) \ {new_db_dir}
    /\ last' = Call("reset_database", h, name, path[h], Ok(TRUE))
    /\ UNCHANGED live

\* An AppDbState going out of scope: its environment is closed with it.
drop(h) ==
    /\ h \in live
    /\ live' = live \ {h}
    /\ env' = [env EXCEPT ![h] = NoEnv]
    /\ db' = [db EXCEPT ![h] = None]
    /\ path' = [path EXCEPT ![h] = None]
    /\ disk' = Reclaim(disk, fs, env')
    /\ last' = Call("drop", h, None, None, Ok(TRUE))
    /\ UNCHANGED <<fs, wiped>>

\* One step: any call, on the handles HS, with names NS, records MS and ids IS.
NextOver(HS, NS, MS, IS) ==
    /\ \/ \E h \in HS, name \in NS : init(h, name)
       \/ \E h \in HS, model \in MS : post(h, model)
       \/ \E h \in HS, id \in IS : get_by_id(h, id)
       \/ \E h \in HS : get(h)
       \/ \E h \in HS, model \in MS : put(h, model)
       \/ \E h \in HS, id \in IS : delete_by_id(h, id)
       \/ \E h \in HS : clear_all_records(h)
       \/ \E h \in HS, name \in NS : reset_database(h, name)
       \/ \E h \in HS : close_database(h)
       \/ \E h \in HS : drop(h)
    /\ UNCHANGED tvars

\* Two handles and two database names, with the records of one id.
LifecycleIds == {"", KeyOrder[1]}
LifecycleModels == [id : LifecycleIds, hash : {"h"}, data : {1}]
Next == NextOver(Handles, Names, LifecycleModels, LifecycleIds)
Spec == Init /\ [][Next]_vars

\* One handle on one database name, with every record.
NextStore == NextOver({"p1"}, {"x"}, LocalDbModel, Ids)
SpecStore == Init /\ [][NextStore]_vars

\* Two handles on one database name, with one record for every id.
RestartModels == [id : Ids, hash : {"h"}, data : {1}]
NextRestart == NextOver(Handles, {"x"}, RestartModels, Ids)
SpecRestart == Init /\ [][NextRestart]_vars

\* ------------------------------------------------------------ FFI arguments
\* state.is_null()
NullState == "null"

\* A *const c_char, as <<kind, text>>: the null pointer, the bytes of a C
\* string that is not UTF-8, a C string with its text, or no such argument.
NullPtr == <<"null", <<>>>>
InvalidUtf8 == <<"invalid_utf8", <<>>>>
NoArg == <<"none", <<>>>>
CStr(text) == <<"str", text>>
is_null(ptr) == ptr[1] = "null"

\* JSON texts that do not decode to a record: the empty text, and objects with
\* a field missing.
MalformedJson == {<<>>, <<"id", "a">>, <<"id", "a", "hash", "h">>}

\* c_ptr_to_string reading the null pointer as the empty string.
c_ptr_to_string_no_null_check(ptr) ==
    IF ptr[1] = "invalid_utf8" THEN Err("BadRequest") ELSE Ok(ptr[2])

\* fn c_ptr_to_string(ptr, field_name)
c_ptr_to_string(ptr) ==
    IF is_null(ptr) THEN Err("BadRequest")
    ELSE IF ptr[1] = "invalid_utf8" THEN Err("BadRequest")
    ELSE Ok(ptr[2])

\* A decoding failure answered as a bad request.
from_str_bad_request(json_str) ==
    LET m == Deserialize(json_str)
    IN  IF m.ok THEN m ELSE Err("BadRequest")

\* match serde_json::from_str(&json_str) { Ok(m) => m, Err(e) => SerializationError }
from_str(json_str) ==
    LET m == Deserialize(json_str)
    IN  IF m.ok THEN m ELSE Err("SerializationError")

\* What each extern "C" function does with its arguments before it calls the
\* method: Err(response) when it returns early, Ok(argument) when it goes on.
push_data_args(state, json_ptr) ==
    IF state = NullState THEN Err("BadRequest")
    ELSE LET json_str == c_ptr_to_string(json_ptr)
         IN  IF ~json_str.ok THEN json_str ELSE from_str(json_str.val)

get_by_id_args(state, id) ==
    IF state = NullState THEN Err("BadRequest")
    ELSE IF is_null(id) THEN Err("BadRequest")
    ELSE c_ptr_to_string(id)

get_all_args(state) ==
    IF state = NullState THEN Err("BadRequest") ELSE Ok(state)

update_data_args(state, json_ptr) ==
    IF state = NullState THEN Err("BadRequest")
    ELSE IF is_null(json_ptr) THEN Err("BadRequest")
    ELSE LET json_str == c_ptr_to_string(json_ptr)
         IN  IF ~json_str.ok THEN json_str ELSE from_str(json_str.val)

delete_by_id_args(db_state, id) ==
    IF db_state = NullState THEN Err("BadRequest")
    ELSE IF is_null(id) THEN Err("BadRequest")
    ELSE c_ptr_to_string(id)

clear_all_records_args(db_state) ==
    IF db_state = NullState THEN Err("BadRequest") ELSE Ok(db_state)

reset_database_args(db_state, name_ptr) ==
    IF db_state = NullState THEN Err("BadRequest")
    ELSE IF is_null(name_ptr) THEN Err("BadRequest")
    ELSE c_ptr_to_string(name_ptr)

close_database_args(db_state) ==
    IF db_state = NullState THEN Err("BadRequest") ELSE Ok(db_state)

\* The extern "C" data functions (post_data and put_data call push_data and
\* update_data), those that take a string, and the strings a caller may pass.
FfiFunctions ==
    {"push_data", "get_by_id", "get_all", "update_data", "delete_by_id",
     "clear_all_records", "reset_database", "close_database"}
StringFunctions ==
    {"push_data", "get_by_id", "update_data", "delete_by_id", "reset_database"}
PtrsOf(fn) ==
    CASE fn \in {"push_data", "update_data"} ->
             {NullPtr, InvalidUtf8} \cup {CStr(j) : j \in MalformedJson}
                 \cup {CStr(Serialize(m)) : m \in LifecycleModels}
      [] fn \in {"get_by_id", "delete_by_id"} ->
             {NullPtr, InvalidUtf8} \cup {CStr(id) : id \in LifecycleIds}
      [] fn = "reset_database" ->
             {NullPtr, InvalidUtf8} \cup {CStr(n) : n \in Names}
      [] OTHER -> {NoArg}

Args(fn, state, ptr) ==
    CASE fn = "push_data" -> push_data_args(state, ptr)
      [] fn = "get_by_id" -> get_by_id_args(state, ptr)
      [] fn = "get_all" -> get_all_args(state)
      [] fn = "update_data" -> update_data_args(state, ptr)
      [] fn = "delete_by_id" -> delete_by_id_args(state, ptr)
      [] fn = "clear_all_records" -> clear_all_records_args(state)
      [] fn = "reset_database" -> reset_database_args(state, ptr)
      [] fn = "close_database" -> close_database_args(state)

\* A call of an extern "C" function that returns before it reaches the method.
early_return(fn, state, ptr) ==
    /\ state = NullState \/ state \in live
    /\ ~Args(fn, state, ptr).ok
    /\ last' = Call("early_return", state, <<fn, ptr>>, None, Args(fn, state, ptr))
    /\ UNCHANGED <<fs, disk, live, env, db, path, wiped>>

\* The steps at which AppDbState::init may fail: fs::create_dir_all,
\* Environment::open, env.create_db.
InitFailures == {"create_dir_all", "open", "create_db"}

\* create_db handing out a pointer although init failed.
create_db_ret_leak(name, init_ok, h) ==
    IF is_null(name) THEN NullState
    ELSE IF name[1] = "invalid_utf8" THEN NullState
    ELSE h

\* The pointer create_db returns: null for a null name, a name that is not
\* UTF-8 and a failed init, the boxed AppDbState (at h) otherwise.
create_db_ret(name, init_ok, h) ==
    IF is_null(name) THEN NullState
    ELSE IF name[1] = "invalid_utf8" THEN NullState
    ELSE IF init_ok THEN h ELSE NullState

\* create_db(name) that does not come to a handle: the name is null or not
\* UTF-8, or AppDbState::init fails at the step `fail`. When the directory
\* exists create_db first opens and closes an instance on it; `reopened` tells
\* whether that open succeeded (it creates the main database when absent).
create_db_failed(name, fail, reopened, h) ==
    /\ h \notin live
    /\ IF name[1] # "str"
       THEN /\ fail = "name" /\ ~reopened
            /\ UNCHANGED <<fs, disk>>
       ELSE LET dir == DbDir(name[2])
                disk1 == IF fs[dir] # NoDir /\ reopened
                         THEN OpenOrCreateDb(disk, fs[dir]) ELSE disk
                fs1 == IF fail = "create_dir_all" THEN fs
                       ELSE CreateDirAll(fs, env, dir)
            IN  /\ fail \in InitFailures
                /\ reopened => fs[dir] # NoDir
                /\ fail = "create_dir_all" => fs[dir] = NoDir
                /\ fail = "create_db" => MAIN_DB_NAME \notin DOMAIN disk1[fs1[dir]]
                /\ fs' = fs1
                /\ disk' = disk1
    /\ last' = Call("create_db", create_db_ret(name, FALSE, h), name, fail,
                    Err(fail))
    /\ UNCHANGED <<live, env, db, path, wiped>>

\* One handle and one database name at the boundary: every call, the calls
\* that return early and the create_db calls that fail.
NextFfi ==
    /\ \/ NextOver({"p1"}, {"x"}, LifecycleModels, LifecycleIds)
       \/ \E fn \in FfiFunctions, state \in {NullState, "p1"} :
              \E ptr \in PtrsOf(fn) : early_return(fn, state, ptr)
       \/ \E name \in {NullPtr, InvalidUtf8, CStr("x")},
             fail \in InitFailures \cup {"name"}, reopened \in BOOLEAN :
              create_db_failed(name, fail, reopened, "p1")
    /\ UNCHANGED tvars
SpecFfi == Init /\ [][NextFfi]_vars

\* ------------------------------------------------------------ failures
\* serde_json's error categories.
SerdeErrors == {"Io", "Syntax", "Data", "Eof"}

\* impl From<SerdeError> for AppResponse
FromSerdeError(e) == "SerializationError"

\* Values another writer may have left in the table: bytes that are not
\* UTF-8, and JSON that does not decode to a record.
ForeignValues == {<<"invalid_utf8">>, <<"id", "a">>}

\* A write transaction whose writes reach the environment although it was
\* never committed.
TxnAbortKeepsWrites(h, tbl) == Commit(h, tbl)

\* A write transaction dropped without commit() returning Ok (RwTransaction's
\* Drop aborts it): whatever it had written, the environment is as it was.
TxnAbort(h, tbl) == disk

\* The record of a call in which the engine, the serialiser or the filesystem
\* failed at `step` with `err`.
FaultCall(op, h, arg, pre, ret, step, err) == <<op, h, arg, pre, ret, <<step, err>>>>
Faulted(c) == Len(c) = 6
StepOf(c) == c[6][1]
ErrOf(c) == c[6][2]

\* The steps of each method that may fail.
post_steps == {"to_string", "begin_rw_txn", "put", "commit"}
get_by_id_steps == {"begin_ro_txn", "get"}
get_steps == {"begin_ro_txn", "open_ro_cursor"}
delete_by_id_steps == {"begin_rw_txn", "get", "del", "commit"}
put_steps == {"begin_rw_txn", "get", "to_string", "put", "commit"}
clear_all_records_steps == {"begin_rw_txn", "open_ro_cursor", "commit"}
reset_database_steps == {"remove_dir_all", "create_dir_all", "open", "create_db"}

\* The errors a step may fail with: any engine error where a transaction is
\* begun, and past that point a full map, a key that exists and a transaction
\* that has gone bad. (A get that fails with NotFound is the absent key, which
\* the methods do not treat as a failure.)
LaterErrors == {"MapFull", "KeyExist", "BadTxn"}
ErrorsAt(step) ==
    IF step = "to_string" THEN SerdeErrors
    ELSE IF step \in {"begin_rw_txn", "begin_ro_txn"} THEN LmdbErrors
    ELSE LaterErrors

\* post failing at `step`: what it returns, and the table as its transaction
\* had written it when it was dropped.
post_txn_failed(tbl, model, step, err) ==
    LET p == TxnPut(tbl, model.id, Serialize(model))
    IN  [ret |-> IF step = "to_string" THEN Err(FromSerdeError(err))
                 ELSE Err(FromLmdbError(err)),
         tbl |-> IF step = "commit" THEN p.val ELSE tbl]

post_failed(h, model, step, err) ==
    /\ h \in live
    /\ step \in post_steps /\ err \in ErrorsAt(step)
    /\ step # "to_string" => env_db(h).ok
    /\ step = "commit" => ValidKey(model.id)
    /\ disk' = IF env_db(h).ok
               THEN TxnAbort(h, post_txn_failed(TableOf(h), model, step, err).tbl)
               ELSE disk
    /\ last' = FaultCall("post", h, model, get_by_id_ret(h, model.id),
                         post_txn_failed(EmptyTable, model, step, err).ret,
                         step, err)
    /\ UNCHANGED <<fs, live, env, db, path, wiped>>

get_by_id_failed(h, id, step, err) ==
    /\ h \in live /\ env_db(h).ok
    /\ step \in get_by_id_steps /\ err \in ErrorsAt(step)
    /\ last' = FaultCall("get_by_id", h, id, None, Err(err), step, err)
    /\ UNCHANGED <<fs, disk, live, env, db, path, wiped>>

get_failed(h, step, err) ==
    /\ h \in live /\ env_db(h).ok
    /\ step \in get_steps /\ err \in ErrorsAt(step)
    /\ last' = FaultCall("get", h, None, None, Err(err), step, err)
    /\ UNCHANGED <<fs, disk, live, env, db, path, wiped>>

\* delete_by_id failing at `step`: the del and the commit are reached only
\* past the existence check.
delete_by_id_txn_failed(tbl, id, step, err) ==
    LET d == TxnDel(tbl, id)
    IN  [ret |-> Err(err),
         tbl |-> IF step = "commit" /\ d.ok THEN d.val ELSE tbl]

delete_by_id_failed(h, id, step, err) ==
    /\ h \in live /\ env_db(h).ok
    /\ step \in delete_by_id_steps /\ err \in ErrorsAt(step)
    /\ step = "del" => TxnGet(TableOf(h), id).ok
    /\ step = "commit" => ValidKey(id)
    /\ disk' = TxnAbort(h, delete_by_id_txn_failed(TableOf(h), id, step, err).tbl)
    /\ last' = FaultCall("delete_by_id", h, id, get_by_id_ret(h, id),
                         delete_by_id_txn_failed(TableOf(h), id, step, err).ret,
                         step, err)
    /\ UNCHANGED <<fs, live, env, db, path, wiped>>

\* put failing at `step`: to_string, put and commit are reached only when the
\* record exists; a to_string failure is returned as LmdbError::Other(1).
put_txn_failed(tbl, model, step, err) ==
    LET p == TxnPut(tbl, model.id, Serialize(model))
    IN  [ret |-> IF step = "to_string" THEN Err("Other(1)") ELSE Err(err),
         tbl |-> IF step = "commit" THEN p.val ELSE tbl]

put_failed(h, model, step, err) ==
    /\ h \in live /\ env_db(h).ok
    /\ step \in put_steps /\ err \in ErrorsAt(step)
    /\ step \in {"to_string", "put", "commit"} => TxnGet(TableOf(h), model.id).ok
    /\ disk' = TxnAbort(h, put_txn_failed(TableOf(h), model, step, err).tbl)
    /\ last' = FaultCall("put", h, model, get_by_id_ret(h, model.id),
                         put_txn_failed(TableOf(h), model, step, err).ret,
                         step, err)
    /\ UNCHANGED <<fs, live, env, db, path, wiped>>

\* clear_all_records failing as a whole: at begin_rw_txn, at open_ro_cursor,
\* or at the commit that follows its deletes.
clear_all_records_txn_failed(tbl, step, err) ==
    [ret |-> Err(err),
     tbl |-> IF step = "commit" THEN clear_all_records_txn(tbl).tbl ELSE tbl]

clear_all_records_failed(h, step, err) ==
    /\ h \in live /\ env_db(h).ok
    /\ step \in clear_all_records_steps /\ err \in ErrorsAt(step)
    /\ disk' = TxnAbort(h, clear_all_records_txn_failed(TableOf(h), step, err).tbl)
    /\ last' = FaultCall("clear_all_records", h, None, None,
                         clear_all_records_txn_failed(TableOf(h), step, err).ret,
                         step, err)
    /\ UNCHANGED <<fs, live, env, db, path, wiped>>

\* The delete loop giving up at the first delete that fails.
RECURSIVE ClearLoopStopAtFailure(_, _, _, _)
ClearLoopStopAtFailure(tbl, keys, count, failing) ==
    IF keys = <<>> THEN [tbl |-> tbl, count |-> count]
    ELSE IF Head(keys) \in failing THEN [tbl |-> tbl, count |-> count]
    ELSE ClearLoopStopAtFailure(TxnDel(tbl, Head(keys)).val, Tail(keys),
                                count + 1, failing)

\* The delete loop of clear_all_records when txn.del fails for the keys in
\* `failing`: Err(e) => warn!(..), and the loop goes on.
RECURSIVE ClearLoopFailing(_, _, _, _)
ClearLoopFailing(tbl, keys, count, failing) ==
    IF keys = <<>> THEN [tbl |-> tbl, count |-> count]
    ELSE IF Head(keys) \in failing
         THEN ClearLoopFailing(tbl, Tail(keys), count, failing)
         ELSE LET d == TxnDel(tbl, Head(keys))
              IN  IF d.ok THEN ClearLoopFailing(d.val, Tail(keys), count + 1, failing)
                  ELSE ClearLoopFailing(tbl, Tail(keys), count, failing)

clear_all_records_txn_failing(tbl, failing) ==
    LET done == ClearLoopFailing(tbl, CursorKeys(tbl), 0, failing)
    IN  [ret |-> Ok(done.count), tbl |-> done.tbl]

\* clear_all_records with the deletes of the keys in `failing` failing with
\* `err`: the transaction is committed all the same.
clear_all_records_del_failed(h, failing, err) ==
    /\ h \in live /\ env_db(h).ok
    /\ failing # {} /\ failing \subseteq DOMAIN TableOf(h)
    /\ err \in ErrorsAt("del")
    /\ disk' = Commit(h, clear_all_records_txn_failing(TableOf(h), failing).tbl)
    /\ last' = FaultCall("clear_all_records", h, failing, get_ret(h),
                         clear_all_records_txn_failing(TableOf(h), failing).ret,
                         "del", err)
    /\ UNCHANGED <<fs, live, env, db, path, wiped>>

\* reset_database failing at `step`. The handle is closed first; the old
\* directory is removed unless remove_dir_all is the step that fails; self.env,
\* self.db and self.path are assigned only after every step succeeded.
reset_database_failed(h, name, step) ==
    /\ h \in live
    /\ step \in reset_database_steps
    /\ LET env1 == [env EXCEPT ![h] = NoEnv]
           new_db_dir == DbDir(name)
           fs1 == IF step = "remove_dir_all" THEN fs ELSE RemoveDirAll(fs, path[h])
           fs2 == IF step \in {"remove_dir_all", "create_dir_all"} THEN fs1
                  ELSE CreateDirAll(fs1, env1, new_db_dir)
       IN  /\ step = "remove_dir_all" => fs[path[h]] # NoDir
           /\ step = "create_dir_all" => fs1[new_db_dir] = NoDir
           /\ fs' = fs2
           /\ env' = env1
           /\ db' = [db EXCEPT ![h] = None]
           /\ disk' = Reclaim(disk, fs2, env1)
           /\ wiped' = (IF HoldsRecords(h) /\ fs2[path[h]] = NoDir
                        THEN wiped \cup {path[h]} ELSE wiped)
                           \ {d \in {new_db_dir} : fs2[d] # NoDir}
    /\ last' = FaultCall("reset_database", h, name, path[h], Err(step),
                         step, "Io")
    /\ UNCHANGED <<live, path>>

\* Another writer on the environment in a directory no handle has open puts
\* `value` under `key`.
foreign_put(dir, key, value) ==
    /\ fs[dir] # NoDir
    /\ MAIN_DB_NAME \in DOMAIN disk[fs[dir]]
    /\ \A h \in Handles : env[h] # fs[dir]
    /\ ValidKey(key) /\ value \in ForeignValues
    /\ disk' = [disk EXCEPT ![fs[dir]] =
                   (MAIN_DB_NAME :> TxnPut(disk[fs[dir]][MAIN_DB_NAME], key, value).val)]
    /\ last' = Call("foreign_put", None, key, None, Ok(TRUE))
    /\ UNCHANGED <<fs, live, env, db, path, wiped>>

\* One handle on one database name, with the failures of every step of every
\* method and the values of a foreign writer.
NextFault ==
    /\ \/ NextOver({"p1"}, {"x"}, RestartModels, Ids)
       \/ \E model \in RestartModels, step \in post_steps :
              \E err \in ErrorsAt(step) : post_failed("p1", model, step, err)
       \/ \E id \in Ids, step \in get_by_id_steps :
              \E err \in ErrorsAt(step) : get_by_id_failed("p1", id, step, err)
       \/ \E step \in get_steps :
              \E err \in ErrorsAt(step) : get_failed("p1", step, err)
       \/ \E id \in Ids, step \in delete_by_id_steps :
              \E err \in ErrorsAt(step) : delete_by_id_failed("p1", id, step, err)
       \/ \E model \in RestartModels, step \in put_steps :
              \E err \in ErrorsAt(step) : put_failed("p1", model, step, err)
       \/ \E step \in clear_all_records_steps :
              \E err \in ErrorsAt(step) : clear_all_records_failed("p1", step, err)
       \/ \E failing \in SUBSET Ids, err \in ErrorsAt("del") :
              clear_all_records_del_failed("p1", failing, err)
       \/ \E step \in reset_database_steps : reset_database_failed("p1", "x", step)
       \/ \E key \in Ids, value \in ForeignValues : foreign_put(DbDir("x"), key, value)
    /\ UNCHANGED tvars
SpecFault == Init /\ [][NextFault]_vars

\* ------------------------------------------------------------ FFI responses
\* The tag of the AppResponse each extern "C" function of lib.rs returns for
\* what the method it calls returned.
push_data_response(ret) ==
    IF ret.ok THEN "Ok" ELSE ret.err

\* get_by_id handing the engine's error on as it is.
get_by_id_response_raw(ret) ==
    IF ret.ok THEN (IF ret.val # NoneOpt THEN "Ok" ELSE "NotFound")
    ELSE ret.err

get_by_id_response(ret) ==
    IF ret.ok THEN (IF ret.val # NoneOpt THEN "Ok" ELSE "NotFound")
    ELSE FromLmdbError(ret.err)

get_all_response(ret) ==
    IF ret.ok THEN "Ok" ELSE FromLmdbError(ret.err)

update_data_response(ret) ==
    IF ret.ok THEN (IF ret.val # NoneOpt THEN "Ok" ELSE "NotFound")
    ELSE FromLmdbError(ret.err)

delete_by_id_response(ret) ==
    IF ret.ok THEN (IF ret.val THEN "Ok" ELSE "NotFound")
    ELSE FromLmdbError(ret.err)

clear_all_records_response(ret) ==
    IF ret.ok THEN "Ok" ELSE FromLmdbError(ret.err)

reset_database_response(ret) ==
    IF ret.ok THEN "Ok" ELSE "DatabaseError"

close_database_response(ret) ==
    IF ret.ok THEN "Ok" ELSE FromLmdbError(ret.err)

StoreOps ==
    {"post", "get_by_id", "get", "put", "delete_by_id", "clear_all_records"}

\* The response that crosses the boundary for the call `c`.
Response(c) ==
    CASE OpOf(c) = "post" -> push_data_response(RetOf(c))
      [] OpOf(c) = "get_by_id" -> get_by_id_response(RetOf(c))
      [] OpOf(c) = "get" -> get_all_response(RetOf(c))
      [] OpOf(c) = "put" -> update_data_response(RetOf(c))
      [] OpOf(c) = "delete_by_id" -> delete_by_id_response(RetOf(c))
      [] OpOf(c) = "clear_all_records" -> clear_all_records_response(RetOf(c))
      [] OpOf(c) = "reset_database" -> reset_database_response(RetOf(c))
      [] OpOf(c) = "close_database" -> close_database_response(RetOf(c))
      [] OpOf(c) = "early_return" -> RetOf(c).err
      [] OTHER -> "Ok"

\* fn response_to_c_string(response: &AppResponse): the C string of the tagged
\* JSON object. serde_json::to_string does not fail on an AppResponse (six
\* variants, each holding a String) and its output has no NUL byte, so the
\* null pointer is the result only for what is not an AppResponse.
response_to_c_string(response) ==
    IF response \in AppResponse THEN CStr(response) ELSE NullPtr

\* Every call at the boundary: the calls that reach the method, those that
\* return early, the create_db calls that fail, and the failures of every step.
NextBoundary == NextFfi \/ NextFault
SpecBoundary == Init /\ [][NextBoundary]_vars

\* ------------------------------------------------------------ threads
\* The handle the threads share, and what they call on it: the methods that
\* take &self, with records and ids of the two keys.
SharedHandle == "p1"
WriteOps == {"post", "put", "delete_by_id", "clear_all_records"}
ReadOps == {"get_by_id", "get"}
ThreadIds == {KeyOrder[n] : n \in 1..Len(KeyOrder)}
PostModels == [id : ThreadIds, hash : {"h"}, data : {1}]
PutModels == [id : ThreadIds, hash : {"h2"}, data : {1}]
ArgsOf(op) ==
    CASE op = "post" -> PostModels
      [] op = "put" -> PutModels
      [] op \in {"delete_by_id", "get_by_id"} -> ThreadIds
      [] OTHER -> {None}

\* begin_rw_txn going ahead while another write transaction is active.
WriterFreeAlways == TRUE

\* env.begin_rw_txn() returns once no other write transaction is active: LMDB
\* holds its writer mutex from the begin of a write transaction to its end.
WriterFree == writer = None

\* The writes of a transaction reaching the environment as they are made.
UncommittedVisible(h, tbl) == Commit(h, tbl)

\* The writes of a transaction that has not committed stay in the
\* transaction: the environment holds what it held.
Uncommitted(h, tbl) == disk

\* The main thread, before it spawns the others, stores a record.
setup_post(model) ==
    /\ \A t \in Threads : pc[t] = "idle"
    /\ env_db(SharedHandle).ok
    /\ post(SharedHandle, model)
    /\ commits' = <<TableOf(SharedHandle)'>>
    /\ UNCHANGED <<pc, txn, writer>>

\* A thread enters a method: env_db, then begin_ro_txn (a snapshot of the
\* committed table) or begin_rw_txn (which waits for the write lock).
t_begin(t, op, arg) ==
    /\ pc[t] = "idle"
    /\ SharedHandle \in live /\ env_db(SharedHandle).ok
    /\ op \in WriteOps => WriterFree
    /\ writer' = IF op \in WriteOps THEN t ELSE writer
    /\ txn' = [txn EXCEPT ![t] = Txn(op, arg, TableOf(SharedHandle), <<>>, 0,
                                      Pending, Len(commits))]
    /\ pc' = [pc EXCEPT ![t] = "body"]
    /\ UNCHANGED <<fs, disk, live, env, db, path, wiped, last, commits>>

\* post, put and delete_by_id make their get, put and del inside the
\* transaction; clear_all_records lists the keys.
t_body(t) ==
    /\ pc[t] = "body" /\ TxnOp(txn[t]) \in WriteOps
    /\ LET x == txn[t]
           r == CASE TxnOp(x) = "post" -> post_txn(TxnTbl(x), TxnArg(x))
                  [] TxnOp(x) = "put" -> put_txn(TxnTbl(x), TxnArg(x))
                  [] TxnOp(x) = "delete_by_id" -> delete_by_id_txn(TxnTbl(x), TxnArg(x))
                  [] OTHER -> [ret |-> Ok(0), tbl |-> TxnTbl(x)]
           keys == IF TxnOp(x) = "clear_all_records" THEN CursorKeys(TxnTbl(x)) ELSE <<>>
           ends == IF TxnOp(x) = "put" /\ r.ret = Ok(NoneOpt) THEN "drop"
                   ELSE IF ~r.ret.ok THEN "drop"
                   ELSE IF keys # <<>> THEN "loop"
                   ELSE "commit"
       IN  /\ txn' = [txn EXCEPT ![t] = Txn(TxnOp(x), TxnArg(x), r.tbl, keys, 0, r.ret,
                                          TxnBegun(x))]
           /\ pc' = [pc EXCEPT ![t] = ends]
           /\ disk' = Uncommitted(SharedHandle, r.tbl)
    /\ UNCHANGED <<fs, live, env, db, path, wiped, last, writer, commits>>

\* One turn of the delete loop of clear_all_records.
t_del(t) ==
    /\ pc[t] = "loop"
    /\ LET x == txn[t]
           done == ClearLoop(TxnTbl(x), <<Head(TxnKeys(x))>>, TxnCount(x))
       IN  /\ txn' = [txn EXCEPT ![t] = Txn(TxnOp(x), TxnArg(x), done.tbl, Tail(TxnKeys(x)),
                                          done.count, Ok(done.count), TxnBegun(x))]
           /\ pc' = [pc EXCEPT ![t] = IF Tail(TxnKeys(x)) = <<>> THEN "commit"
                                      ELSE "loop"]
           /\ disk' = Uncommitted(SharedHandle, done.tbl)
    /\ UNCHANGED <<fs, live, env, db, path, wiped, last, writer, commits>>

\* txn.commit(): the table of the transaction becomes the committed table and
\* the write lock is released; the method returns.
t_commit(t) ==
    /\ pc[t] = "commit"
    /\ disk' = Commit(SharedHandle, TxnTbl(txn[t]))
    /\ commits' = Append(commits, TxnTbl(txn[t]))
    /\ writer' = None
    /\ pc' = [pc EXCEPT ![t] = "done"]
    /\ last' = Call(TxnOp(txn[t]), SharedHandle, TxnArg(txn[t]), None, TxnRet(txn[t]))
    /\ UNCHANGED <<fs, live, env, db, path, wiped, txn>>

\* The method returns without commit (put on an absent id, an error): the
\* transaction is dropped and the write lock released.
t_drop(t) ==
    /\ pc[t] = "drop"
    /\ disk' = TxnAbort(SharedHandle, TxnTbl(txn[t]))
    /\ writer' = None
    /\ pc' = [pc EXCEPT ![t] = "done"]
    /\ last' = Call(TxnOp(txn[t]), SharedHandle, TxnArg(txn[t]), None, TxnRet(txn[t]))
    /\ UNCHANGED <<fs, live, env, db, path, wiped, txn, commits>>

\* get_by_id and get read from their snapshot and return.
t_read(t) ==
    /\ pc[t] = "body" /\ TxnOp(txn[t]) \in ReadOps
    /\ LET x == txn[t]
           ret == IF TxnOp(x) = "get_by_id" THEN get_by_id_txn(TxnTbl(x), TxnArg(x))
                  ELSE get_txn(TxnTbl(x))
       IN  /\ txn' = [txn EXCEPT ![t] = Txn(TxnOp(x), TxnArg(x), TxnTbl(x), <<>>, 0, ret,
                                          TxnBegun(x))]
           /\ last' = Call(TxnOp(x), SharedHandle, TxnArg(x), None, ret)
    /\ pc' = [pc EXCEPT ![t] = "done"]
    /\ UNCHANGED <<fs, disk, live, env, db, path, wiped, writer, commits>>

\* One handle shared by the threads: the main thread opens it and stores
\* records, then every thread makes one call, in any interleaving.
NextThreads ==
    \/ init(SharedHandle, "x") /\ UNCHANGED tvars
    \/ \E model \in PostModels : setup_post(model)
    \/ \E t \in Threads, op \in WriteOps \cup ReadOps :
           \E arg \in ArgsOf(op) : t_begin(t, op, arg)
    \/ \E t \in Threads : t_body(t)
    \/ \E t \in Threads : t_del(t)
    \/ \E t \in Threads : t_commit(t)
    \/ \E t \in Threads : t_drop(t)
    \/ \E t \in Threads : t_read(t)
SpecThreads == Init /\ [][NextThreads]_vars

\* A method returning on an error with its transaction still alive.
OnErrorKeepTxn == "done"

\* Where a method goes when a step inside its write transaction fails: `?`
\* returns from the method, which drops the RwTransaction.
OnError == "drop"

\* A step of a write transaction (get, put, del, commit) fails with `err`.
ThreadErrors == {"MapFull"}
t_fail(t, err) ==
    /\ pc[t] \in {"body", "loop", "commit"} /\ TxnOp(txn[t]) \in WriteOps
    /\ err \in ThreadErrors
    /\ txn' = [txn EXCEPT ![t] = Txn(TxnOp(txn[t]), TxnArg(txn[t]),
                                      TxnTbl(txn[t]), <<>>, TxnCount(txn[t]),
                                      Err(IF TxnOp(txn[t]) = "post"
                                          THEN FromLmdbError(err) ELSE err),
                                      TxnBegun(txn[t]))]
    /\ pc' = [pc EXCEPT ![t] = OnError]
    /\ UNCHANGED <<fs, disk, live, env, db, path, wiped, last, writer, commits>>

\* The threads on the shared handle, with failing steps.
NextThreadsFault ==
    \/ NextThreads
    \/ \E t \in Threads, err \in ThreadErrors : t_fail(t, err)
SpecThreadsFault == Init /\ [][NextThreadsFault]_vars

\* ------------------------------------------------------------ waiting
\* A thread enters a method of the shared handle; it has yet to begin its
\* transaction.
t_call(t, op, arg) ==
    /\ pc[t] = "idle"
    /\ SharedHandle \in live /\ env_db(SharedHandle).ok
    /\ txn' = [txn EXCEPT ![t] = Txn(op, arg, EmptyTable, <<>>, 0, Pending,
                                      Len(commits))]
    /\ pc' = [pc EXCEPT ![t] = "wait"]
    /\ UNCHANGED <<fs, disk, live, env, db, path, wiped, last, writer, commits>>

\* begin_ro_txn / begin_rw_txn returns: a write transaction only once the
\* write lock is free. Neither call takes a timeout.
t_acquire(t) ==
    /\ pc[t] = "wait"
    /\ TxnOp(txn[t]) \in WriteOps => WriterFree
    /\ writer' = IF TxnOp(txn[t]) \in WriteOps THEN t ELSE writer
    /\ txn' = [txn EXCEPT ![t] = Txn(TxnOp(txn[t]), TxnArg(txn[t]),
                                      TableOf(SharedHandle), <<>>, 0, Pending,
                                      Len(commits))]
    /\ pc' = [pc EXCEPT ![t] = "body"]
    /\ UNCHANGED <<fs, disk, live, env, db, path, wiped, last, commits>>

\* Another process that has the environment open begins a write transaction
\* (the write lock of an LMDB environment is shared by the processes that
\* open it), and ends it without a change.
OtherProcess == "other process"
other_writer_begin ==
    /\ SharedHandle \in live /\ env_db(SharedHandle).ok
    /\ WriterFree
    /\ writer' = OtherProcess
    /\ UNCHANGED <<fs, disk, live, env, db, path, wiped, last, pc, txn, commits>>

other_writer_end ==
    /\ writer = OtherProcess
    /\ writer' = None
    /\ UNCHANGED <<fs, disk, live, env, db, path, wiped, last, pc, txn, commits>>

\* The steps a thread makes once it is inside its transaction.
t_run(t) == t_body(t) \/ t_del(t) \/ t_commit(t) \/ t_drop(t) \/ t_read(t)

\* Two threads on the shared handle and another process on its environment.
\* Every thread of this process keeps running, and a thread that waits for
\* the write lock gets it if the lock is free again and again; the other
\* process is under no obligation.
WaitingThreads == {"t1", "t2"}
NextWaiting ==
    \/ init(SharedHandle, "x") /\ UNCHANGED tvars
    \/ \E t \in WaitingThreads, op \in WriteOps \cup ReadOps :
           \E arg \in ArgsOf(op) : t_call(t, op, arg)
    \/ \E t \in WaitingThreads : t_acquire(t)
    \/ \E t \in WaitingThreads : t_run(t)
    \/ other_writer_begin
    \/ other_writer_end
SpecWaiting ==
    /\ Init /\ [][NextWaiting]_vars
    /\ \A t \in WaitingThreads : WF_vars(t_run(t)) /\ SF_vars(t_acquire(t))

\* ------------------------------------------------------------ properties
IsOpen(h) == h \in live /\ env_db(h).ok

\* The ids ReadById finds on h, and the map from them to the records it returns.
ReadMap(reads) ==
    [id \in {i \in Ids : reads[i].ok /\ reads[i].val # NoneOpt} |-> reads[id].val[1]]
MapOf(h) == CHOOSE m \in {ReadMap([id \in Ids |-> get_by_id_ret(h, id)])} : TRUE
FoundIds(h) == DOMAIN MapOf(h)

\* The step just taken is the call `op` on h, which was open before it.
Did(op, h) == OpOf(last') = op /\ HandleOf(last') = h /\ IsOpen(h)

\* C1 (round trip): whenever Create(r) has returned success on a handle,
\* ReadById(r.id) on that handle returns Some(r): same id, hash and payload.
C1_RoundTrip ==
    (OpOf(last) = "post" /\ RetOf(last).ok) =>
        /\ RetOf(last).val = ParamOf(last)
        /\ get_by_id_ret(HandleOf(last), ParamOf(last).id) = Ok(Some(ParamOf(last)))

\* A Create has succeeded in a store that holds other records as well.
C1_Witness ==
    /\ OpOf(last) = "post" /\ RetOf(last).ok
    /\ PreOf(last) = Ok(NoneOpt)
    /\ Cardinality(FoundIds(HandleOf(last))) = 2

\* C2 (upsert): a Create(r2) on an id that already holds a record succeeds
\* without any existence check, leaves exactly one record under that id, equal
\* to r2, and leaves the number of records as it was.
C2_Upsert ==
    [][\A h \in Handles :
         (Did("post", h) /\ ParamOf(last').id \in FoundIds(h)) =>
             /\ RetOf(last') = Ok(ParamOf(last'))
             /\ SelectSeq(get_ret(h)'.val, LAMBDA m : m.id = ParamOf(last').id)
                    = <<ParamOf(last')>>
             /\ Len(get_ret(h)'.val) = Len(get_ret(h).val)
             /\ Len(get_ret(h)'.val) = Cardinality(FoundIds(h))]_vars

\* A second Create replaced a record with another hash and payload.
C2_Witness ==
    /\ OpOf(last) = "post" /\ RetOf(last).ok
    /\ PreOf(last).ok /\ PreOf(last).val # NoneOpt
    /\ PreOf(last).val[1].hash # ParamOf(last).hash
    /\ PreOf(last).val[1].data # ParamOf(last).data
    /\ Len(get_ret(HandleOf(last)).val) = 2

C4_UpdatePresent ==
    [][\A h \in Handles :
         (Did("put", h) /\ ParamOf(last').id \in DOMAIN TableOf(h)) =>
             /\ RetOf(last') = Ok(Some(ParamOf(last')))
             /\ ParamOf(last').id \in FoundIds(h)'
             /\ MapOf(h)'[ParamOf(last').id] = ParamOf(last')
             /\ (OpOf(last) = "put" /\ HandleOf(last) = h
                   /\ RetOf(last) = Ok(Some(ParamOf(last)))
                   /\ ParamOf(last).id # ParamOf(last').id) =>
                    /\ ParamOf(last).id \in FoundIds(h)'
                    /\ MapOf(h)'[ParamOf(last).id] = ParamOf(last)]_vars

\* An Update replaced a record that had another hash and another payload.
C4_Witness ==
    /\ OpOf(last) = "put" /\ RetOf(last) = Ok(Some(ParamOf(last)))
    /\ PreOf(last).ok /\ PreOf(last).val # NoneOpt
    /\ PreOf(last).val[1].hash # ParamOf(last).hash
    /\ PreOf(last).val[1].data # ParamOf(last).data
    /\ PreOf(last).val[1].id = ParamOf(last).id

C6_ClearAll ==
    [][\A h \in Handles :
         Did("clear_all_records", h) =>
             /\ RetOf(last').ok
             /\ get_ret(h)' = Ok(<<>>)
             /\ RetOf(last').val = Len(get_ret(h).val)
             /\ RetOf(last').val = Cardinality(DOMAIN TableOf(h))]_vars

\* A ClearAll removed two records.
C6_Witness ==
    /\ OpOf(last) = "clear_all_records" /\ RetOf(last) = Ok(2)
    /\ get_ret(HandleOf(last)) = Ok(<<>>)

\* The reference map: Create inserts or overwrites, Update overwrites what is
\* present, Delete removes, ClearAll empties.
RefCreate(m, r) == [id \in DOMAIN m \cup {r.id} |-> IF id = r.id THEN r ELSE m[id]]
RefUpdate(m, r) == IF r.id \in DOMAIN m THEN RefCreate(m, r) ELSE m
RefDelete(m, id) == [k \in DOMAIN m \ {id} |-> m[k]]
RefClear == [id \in {} |-> None]

\* The list `all` holds exactly one record per id of the map m, the map's own.
ListsMap(all, m) ==
    /\ Len(all) = Cardinality(DOMAIN m)
    /\ {all[n].id : n \in 1..Len(all)} = DOMAIN m
    /\ \A n \in 1..Len(all) : m[all[n].id] = all[n]

ReadAllAgrees(h) ==
    \A all \in {get_ret(h)}, m \in {MapOf(h)} : all.ok /\ ListsMap(all.val, m)

\* The map after the call `c` made on the map m, by the reference.
RefApply(c, m) ==
    CASE OpOf(c) = "post" -> IF ValidKey(ParamOf(c).id) THEN RefCreate(m, ParamOf(c)) ELSE m
      [] OpOf(c) = "put" -> IF ValidKey(ParamOf(c).id) THEN RefUpdate(m, ParamOf(c)) ELSE m
      [] OpOf(c) = "delete_by_id" -> IF ValidKey(ParamOf(c)) THEN RefDelete(m, ParamOf(c)) ELSE m
      [] OpOf(c) = "clear_all_records" -> RefClear
      [] OTHER -> m

Sharing(h) == {h2 \in live \ {h} : env[h2] = env[h]}

\* C8 (reset yields a fresh store): after a successful Reset(newPath), on a
\* handle that alone is open on its storage, ReadAll returns the empty list,
\* whatever newPath is and whatever was stored at newPath before the call.
C8_ResetFresh ==
    (OpOf(last) = "reset_database" /\ RetOf(last).ok
        /\ Sharing(HandleOf(last)) = {}) =>
        get_ret(HandleOf(last)) = Ok(<<>>)

\* C9 (reset destroys the old storage): a successful Reset away from a
\* directory removes it; the Init that next opens a directory so removed while
\* it held records opens a store whose ReadAll is empty and whose storage no
\* other handle is open on and no other directory holds; and a write through
\* one handle changes no read of a handle open on other storage.
C9_ResetDestroysOld ==
    [][\A h \in Handles :
         /\ (OpOf(last') = "reset_database" /\ HandleOf(last') = h /\ h \in live
                /\ RetOf(last').ok /\ path'[h] # path[h]) =>
                /\ fs'[path[h]] = NoDir
                /\ HoldsRecords(h) => path[h] \in wiped'
         /\ (OpOf(last') = "init" /\ HandleOf(last') = h /\ PreOf(last') = "wiped") =>
                /\ get_ret(h)' = Ok(<<>>)
                /\ Sharing(h)' = {}
                /\ \A d \in Dirs : fs'[d] = env'[h] => d = path'[h]
         /\ (OpOf(last') \in StoreOps /\ HandleOf(last') = h /\ h \in live) =>
                \A h2 \in live :
                    env[h2] # env[h] =>
                        /\ get_ret(h2)' = get_ret(h2)
                        /\ env[h2] # NoEnv => TableOf(h2)' = TableOf(h2)]_vars

\* Init has opened a directory that a reset removed with records in it, while
\* the handle that reset away from it is open on the other directory and holds a
\* record there.
C9_Witness ==
    /\ OpOf(last) = "init" /\ PreOf(last) = "wiped"
    /\ get_ret(HandleOf(last)) = Ok(<<>>)
    /\ \E h2 \in live \ {HandleOf(last)} :
           /\ path[h2] # path[HandleOf(last)]
           /\ HoldsRecords(h2)

\* C10 (stale handle rejection): every Create, ReadById, ReadAll, Update,
\* Delete and ClearAll made through a handle after its Close answers
\* BadRequest.
C10_StaleBadRequest ==
    (OpOf(last) \in StoreOps /\ HandleOf(last) \in live
        /\ ~IsOpen(HandleOf(last))) =>
        Response(last) = "BadRequest"

\* C11 (close is idempotent): Close on a handle that is already closed
\* returns success and changes nothing: the handle stays closed on the same
\* path, no directory and no stored record changes; so any number of Closes
\* in a row leaves the state one Close leaves. A Close of an open handle
\* leaves it closed and its directory's records as they were.
C11_CloseIdempotent ==
    [][\A h \in Handles :
         (OpOf(last') = "close_database" /\ HandleOf(last') = h /\ h \in live) =>
             /\ RetOf(last') = Ok(TRUE)
             /\ Response(last') = "Ok"
             /\ ~IsOpen(h)'
             /\ path' = path /\ fs' = fs /\ live' = live
             /\ \A d \in Dirs : fs[d] # NoDir => disk'[fs[d]] = disk[fs[d]]
             /\ ~IsOpen(h) => (env' = env /\ db' = db /\ disk' = disk)]_vars

\* A Close was made on a handle already closed, whose directory holds a record.
C11_Witness ==
    /\ OpOf(last) = "close_database" /\ PreOf(last) = FALSE
    /\ RetOf(last) = Ok(TRUE)
    /\ fs[path[HandleOf(last)]] # NoDir
    /\ DOMAIN disk[fs[path[HandleOf(last)]]][MAIN_DB_NAME] # {}

\* The records get_by_id finds in the table tbl, by id.
StoredMap(tbl) == ReadMap([id \in Ids |-> get_by_id_txn(tbl, id)])

\* The records persisted under the directory d.
Persisted(d) ==
    IF fs[d] # NoDir /\ MAIN_DB_NAME \in DOMAIN disk[fs[d]]
    THEN StoredMap(disk[fs[d]][MAIN_DB_NAME])
    ELSE RefClear

\* C12 (persistence across restart): closing or dropping a handle leaves under
\* every directory the records it held, which for the handle's own directory
\* are the records the handle read; an Init on a directory that exists opens a
\* handle whose ReadById and ReadAll return exactly the records persisted
\* there, unchanged and no others; and a Create after that adds its record and
\* keeps the others.
C12_Persistence ==
    [][\A h \in Handles :
         /\ (OpOf(last') \in {"close_database", "drop"} /\ HandleOf(last') = h
                /\ h \in live) =>
                /\ \A d \in Dirs : Persisted(d)' = Persisted(d)
                /\ \A d \in Dirs :
                       (IsOpen(h) /\ d = path[h] /\ fs[d] = env[h]) =>
                           Persisted(d)' = MapOf(h)
         /\ (OpOf(last') = "init" /\ HandleOf(last') = h
                /\ PreOf(last') = "present") =>
                /\ MapOf(h)' = Persisted(DbDir(ParamOf(last')))
                /\ ReadAllAgrees(h)'
                /\ \A d \in Dirs : Persisted(d)' = Persisted(d)
         /\ (Did("post", h) /\ RetOf(last').ok) =>
                /\ MapOf(h)'[ParamOf(last').id] = ParamOf(last')
                /\ \A id \in FoundIds(h) \ {ParamOf(last').id} :
                       id \in FoundIds(h)' /\ MapOf(h)'[id] = MapOf(h)[id]]_vars

\* Init has opened a directory that holds two records while no other handle is
\* open, and reads both.
C12_Witness ==
    /\ OpOf(last) = "init" /\ PreOf(last) = "present"
    /\ Cardinality(FoundIds(HandleOf(last))) = 2
    /\ Len(get_ret(HandleOf(last)).val) = 2
    /\ \A h2 \in Handles \ {HandleOf(last)} : ~IsOpen(h2)

\* C13 (single valid handle per path): in every reachable state at most one
\* of the handles bound to a path is usable for store operations.
C13_SingleValidHandle ==
    \A h1 \in live, h2 \in live :
        (h1 # h2 /\ path[h1] = path[h2]) => ~(IsOpen(h1) /\ IsOpen(h2))

\* C14 (liveness check before every operation): a store operation on a
\* handle that is no longer valid is refused with BadRequest before any
\* transaction begins, so it changes no stored table.
C14_ValidateFirst ==
    [][\A h \in Handles :
         (OpOf(last') \in StoreOps /\ HandleOf(last') = h /\ h \in live
             /\ ~IsOpen(h)) =>
             /\ Response(last') = "BadRequest"
             /\ disk' = disk]_vars

\* C16 (no validity after close): once a handle has been closed, the validity
\* check every operation makes on that handle never succeeds again.
C16_ClosedStaysInvalid ==
    [][\A h \in Handles :
         (h \in live /\ ~IsOpen(h) /\ h \in live') => ~IsOpen(h)']_vars

\* C18 (null input is BadRequest): every boundary data function called with
\* a null handle pointer or a null string returns early with a BadRequest
\* response, and the call changes no handle, no directory and no stored record.
C18_NullIsBadRequest ==
    [][/\ \A fn \in FfiFunctions, state \in {NullState} \cup live :
              \A ptr \in PtrsOf(fn) :
                  (state = NullState \/ (fn \in StringFunctions /\ is_null(ptr))) =>
                      Args(fn, state, ptr) = Err("BadRequest")
       /\ (OpOf(last') = "early_return"
              /\ (HandleOf(last') = NullState \/ is_null(ParamOf(last')[2]))) =>
              /\ Response(last') = "BadRequest"
              /\ UNCHANGED <<fs, disk, live, env, db, path>>]_vars

\* update_data was called with a null string on an open handle whose store
\* holds a record.
C18_Witness ==
    /\ OpOf(last) = "early_return"
    /\ ParamOf(last)[1] = "update_data" /\ is_null(ParamOf(last)[2])
    /\ HandleOf(last) \in live
    /\ HoldsRecords(HandleOf(last))

\* C19 (init failure sentinel): create_db returns the null handle, and makes
\* no handle, when the name is null or not UTF-8 or init fails; the handle of
\* a create_db that succeeds is not null and is open on its main database.
C19_InitSentinel ==
    [][\A h \in Handles \cup {NullState} :
         /\ (OpOf(last') = "create_db" /\ HandleOf(last') = h) =>
                /\ h = NullState
                /\ live' = live /\ env' = env /\ db' = db /\ path' = path
         /\ (OpOf(last') = "init" /\ HandleOf(last') = h) =>
                /\ h # NullState
                /\ h \in live' /\ env_db(h)'.ok
                /\ MAIN_DB_NAME \in DOMAIN disk'[env'[h]]]_vars

\* create_db got a name and failed in init after the directory was made.
C19_Witness ==
    /\ OpOf(last) = "create_db" /\ HandleOf(last) = NullState
    /\ ParamOf(last)[1] = "str"
    /\ PreOf(last) \in {"open", "create_db"}
    /\ fs[DbDir(ParamOf(last)[2])] # NoDir
    /\ live = {}

\* C20 (malformed payload): push_data and update_data called on a handle with
\* a string that does not decode to a record return early with
\* SerializationError, having begun no transaction: no stored record and no
\* handle changes.
C20_MalformedRejected ==
    [][/\ \A fn \in {"push_data", "update_data"}, h \in live, j \in MalformedJson :
              Args(fn, h, CStr(j)) = Err("SerializationError")
       /\ (OpOf(last') = "early_return" /\ HandleOf(last') # NullState
              /\ ParamOf(last')[1] \in {"push_data", "update_data"}
              /\ ParamOf(last')[2][1] = "str") =>
              /\ Response(last') = "SerializationError"
              /\ UNCHANGED <<fs, disk, live, env, db, path>>]_vars

\* push_data was called with an object that lacks a field on an open handle
\* whose store holds a record.
C20_Witness ==
    /\ OpOf(last) = "early_return"
    /\ ParamOf(last) = <<"push_data", CStr(<<"id", "a", "hash", "h">>)>>
    /\ HandleOf(last) \in live
    /\ HoldsRecords(HandleOf(last))

\* The id a get_by_id, put or delete_by_id call names.
IdOf(c) == IF OpOf(c) = "put" THEN ParamOf(c).id ELSE ParamOf(c)

\* C21 (absence is NotFound): get_by_id, update_data and delete_by_id on an
\* open handle, for an id under which the store holds no record, answer
\* NotFound and change no stored table.
C21_AbsenceNotFound ==
    [][\A h \in Handles :
         (OpOf(last') \in {"get_by_id", "put", "delete_by_id"}
             /\ HandleOf(last') = h /\ IsOpen(h)
             /\ IdOf(last') \notin DOMAIN TableOf(h)) =>
             /\ Response(last') = "NotFound"
             /\ disk' = disk]_vars

\* C22 (total error conversion): every engine error variant and every
\* serialization error converts to exactly one response variant and never to
\* Ok: NotFound to NotFound, KeyExist to BadRequest, every other engine error
\* to DatabaseError, every serialization error to SerializationError; and
\* that is the response of every call in which a method hands an error to the
\* conversion.
C22_TotalConversion ==
    /\ \A e \in LmdbErrors :
           /\ FromLmdbError(e) \in AppResponse \ {"Ok"}
           /\ FromLmdbError(e) =
                  (CASE e = "NotFound" -> "NotFound"
                     [] e = "KeyExist" -> "BadRequest"
                     [] OTHER -> "DatabaseError")
    /\ \A e \in SerdeErrors : FromSerdeError(e) = "SerializationError"
    /\ (OpOf(last) \in StoreOps /\ ~RetOf(last).ok) =>
           /\ Response(last) \in AppResponse \ {"Ok"}
           /\ OpOf(last) # "post" =>
                  Response(last) =
                      (CASE RetOf(last).err = "NotFound" -> "NotFound"
                         [] RetOf(last).err = "KeyExist" -> "BadRequest"
                         [] OTHER -> "DatabaseError")
           /\ (OpOf(last) = "post" /\ Faulted(last)) =>
                  Response(last) =
                      (CASE StepOf(last) = "to_string" -> "SerializationError"
                         [] ErrOf(last) = "NotFound" -> "NotFound"
                         [] ErrOf(last) = "KeyExist" -> "BadRequest"
                         [] OTHER -> "DatabaseError")

\* A Create whose write transaction could not begin because the engine
\* answered KeyExist came back as BadRequest.
C22_Witness ==
    /\ Faulted(last) /\ OpOf(last) = "post"
    /\ StepOf(last) = "begin_rw_txn" /\ ErrOf(last) = "KeyExist"
    /\ Response(last) = "BadRequest"

\* The calls of the boundary data operations.
DataOps == StoreOps \cup {"reset_database", "close_database", "early_return"}

\* C23 (structured outcome always): every boundary data operation, for every
\* input and on an open handle, a closed handle and a handle a failed Reset
\* left without an engine, returns a non-null response that carries one of the
\* six tags; a raw engine error never crosses.
C23_StructuredOutcome ==
    OpOf(last) \in DataOps =>
        /\ Response(last) \in AppResponse
        /\ ~is_null(response_to_c_string(Response(last)))

\* A Create on a handle that a failed Reset left without an engine and
\* without its directory was answered DatabaseError.
C23_Witness ==
    /\ OpOf(last) = "post" /\ HandleOf(last) \in live
    /\ env[HandleOf(last)] = NoEnv
    /\ fs[path[HandleOf(last)]] = NoDir
    /\ Response(last) = "DatabaseError"

\* C24 (all-or-nothing mutation): whenever Create, Update or Delete returns an
\* error (serialization failure, engine put or del failure, commit failure),
\* every table is as it was before the call and so is the result of every
\* read: a write transaction dropped without commit has no effect.
C24_AllOrNothing ==
    [][\A h \in Handles :
         (OpOf(last') \in {"post", "put", "delete_by_id"}
             /\ HandleOf(last') = h /\ ~RetOf(last').ok) =>
             /\ disk' = disk
             /\ get_ret(h)' = get_ret(h)
             /\ \A id \in Ids : get_by_id_ret(h, id)' = get_by_id_ret(h, id)]_vars

\* A Create of a record the store did not hold had put it when its commit
\* failed, in a store that holds another record.
C24_Witness ==
    /\ Faulted(last) /\ OpOf(last) = "post" /\ StepOf(last) = "commit"
    /\ PreOf(last) = Ok(NoneOpt)
    /\ ~RetOf(last).ok
    /\ Cardinality(FoundIds(HandleOf(last))) = 1

\* The keys of `tbl` whose values decode to a record, in key order.
DecodableKeys(tbl) ==
    SelectSeq(KeyOrder, LAMBDA k : k \in DOMAIN tbl /\ tbl[k] \notin ForeignValues)

\* C25 (ReadAll tolerates undecodable entries): when the table holds values
\* that are not UTF-8 or do not decode to a record, ReadAll still succeeds and
\* returns exactly the decodable records, in key order, every undecodable
\* entry left out.
C25_ReadAllSkipsUndecodable ==
    \A h \in Handles :
        IsOpen(h) =>
            \A keys \in {DecodableKeys(TableOf(h))} :
                /\ get_ret(h).ok
                /\ Len(get_ret(h).val) = Len(keys)
                /\ \A n \in 1..Len(keys) :
                       Serialize(get_ret(h).val[n]) = TableOf(h)[keys[n]]
                /\ (OpOf(last) = "get" /\ HandleOf(last) = h /\ ~Faulted(last)) =>
                       RetOf(last) = get_ret(h)

\* ReadAll returned the one record of a table whose first entry is not UTF-8.
C25_Witness ==
    /\ OpOf(last) = "get" /\ ~Faulted(last) /\ IsOpen(HandleOf(last))
    /\ DOMAIN TableOf(HandleOf(last)) = {"a", "b"}
    /\ TableOf(HandleOf(last))["a"] = <<"invalid_utf8">>
    /\ RetOf(last).ok /\ Len(RetOf(last).val) = 1
    /\ RetOf(last).val[1].id = "b"

FailedInWindow(c) ==
    /\ Faulted(c) /\ OpOf(c) = "reset_database"
    /\ StepOf(c) \in {"create_dir_all", "open", "create_db"}

\* C27 (Reset fatal window): when Reset fails while creating the new engine
\* after the old storage location has been deleted, the boundary call returns
\* DatabaseError, the handle holds no engine, and a later store operation on
\* that handle (Create, ReadById, ReadAll, Update, Delete, ClearAll, Reset)
\* fails and leaves it without an engine: only a fresh Init gives a usable
\* handle.
C27_ResetFatalWindow ==
    [][\A h \in Handles :
         /\ (FailedInWindow(last') /\ HandleOf(last') = h) =>
                /\ Response(last') = "DatabaseError"
                /\ env'[h] = NoEnv /\ db'[h] = None
         /\ (FailedInWindow(last) /\ HandleOf(last) = h /\ HandleOf(last') = h
                 /\ OpOf(last') \in StoreOps \cup {"reset_database"}) =>
                /\ Response(last') # "Ok"
                /\ ~IsOpen(h)']_vars

\* C28 (instance isolation): for two handles bound to different paths, no
\* Create, Update, Delete, ClearAll, Reset or Close made through one of them
\* changes what ReadById or ReadAll return on the other.
C28_InstanceIsolation ==
    [][\A h1 \in Handles, h2 \in Handles :
         (h1 \in live /\ h2 \in live /\ path[h1] # path[h2]
             /\ HandleOf(last') = h1
             /\ OpOf(last') \in {"post", "put", "delete_by_id",
                                 "clear_all_records", "reset_database",
                                 "close_database"}) =>
             /\ get_ret(h2)' = get_ret(h2)
             /\ \A id \in Ids : get_by_id_ret(h2, id)' = get_by_id_ret(h2, id)]_vars

\* A Create through one of two open handles on different paths: the other
\* store is still empty.
C28_Witness ==
    /\ OpOf(last) = "post" /\ RetOf(last).ok /\ HandleOf(last) = "p1"
    /\ IsOpen("p1") /\ IsOpen("p2") /\ path["p1"] # path["p2"]
    /\ DOMAIN TableOf("p1") = {"a"}
    /\ DOMAIN TableOf("p2") = {}

\* What the read of `x` returns on the table `tbl`.
ReadOn(x, tbl) ==
    IF TxnOp(x) = "get_by_id" THEN get_by_id_txn(tbl, TxnArg(x)) ELSE get_txn(tbl)

\* C29 (snapshot reads under concurrency): a ReadById or ReadAll that ran
\* while other threads ran write operations on the same handle succeeded, and
\* its result is what the store held after some prefix of the committed write
\* transactions, never part of a transaction.
C29_SnapshotReads ==
    \A t \in Threads :
        (pc[t] = "done" /\ TxnOp(txn[t]) \in ReadOps) =>
            /\ TxnRet(txn[t]).ok
            /\ \E n \in 1..Len(commits) : TxnRet(txn[t]) = ReadOn(txn[t], commits[n])

\* A ReadAll began on two records, an Update committed, a ClearAll has made
\* the first of its two deletes, and the ReadAll has returned the two records
\* it began on, which are no longer what is committed.
C29_Witness ==
    /\ OpOf(last) = "get"
    /\ \E t \in Threads, w \in Threads :
           /\ pc[t] = "done" /\ TxnOp(txn[t]) = "get"
           /\ Len(TxnRet(txn[t]).val) = 2
           /\ Len(commits) > TxnBegun(txn[t])
           /\ TxnRet(txn[t]) # get_ret(SharedHandle)
           /\ pc[w] = "loop" /\ TxnCount(txn[w]) = 1

\* The threads that have entered a method.
Started == {t \in Threads : pc[t] # "idle"}

\* C30 (writers serialized, no lost writes): at most one write transaction is
\* active on the handle's engine at any time; and when the threads issue
\* Creates for distinct ids on the shared handle and all have returned
\* success, every one of those records is stored.
C30_SerializedWriters ==
    /\ Cardinality({t \in Started : pc[t] # "done" /\ TxnOp(txn[t]) \in WriteOps}) <= 1
    /\ (/\ Started # {}
        /\ \A t \in Started :
               pc[t] = "done" /\ TxnOp(txn[t]) = "post" /\ TxnRet(txn[t]).ok
        /\ \A t \in Started, u \in Started :
               t # u => TxnArg(txn[t]).id # TxnArg(txn[u]).id) =>
           \A t \in Started :
               get_by_id_ret(SharedHandle, TxnArg(txn[t]).id) = Ok(Some(TxnArg(txn[t])))

\* Two threads have created records of different ids in a store that was
\* empty when they were spawned: both commits are there and both records are
\* stored.
C30_Witness ==
    /\ Cardinality(Started) = 2
    /\ \A t \in Started : pc[t] = "done" /\ TxnOp(txn[t]) = "post" /\ TxnRet(txn[t]).ok
    /\ commits[1] = EmptyTable /\ Len(commits) = 3
    /\ DOMAIN TableOf(SharedHandle) = ThreadIds

\* C31 (no indefinite blocking): every store operation that is started
\* eventually returns, also when the write transaction is held elsewhere: an
\* operation that cannot get its transaction returns (with DatabaseError)
\* instead of waiting forever.
C31_NoIndefiniteBlocking ==
    \A t \in WaitingThreads : (pc[t] = "wait") ~> (pc[t] = "done")

\* C32 (errors do not poison the handle): no outcome of Create, ReadById,
\* ReadAll, Update, Delete or ClearAll, be it success, None or false, or an
\* error, changes whether the handle is open or which path it is bound to;
\* after such a call on an open handle a following valid Create succeeds; and
\* a handle goes from open to closed or back only by Close and Reset.
C32_NoPoison ==
    [][\A h \in Handles :
         /\ (OpOf(last') \in StoreOps /\ HandleOf(last') = h) =>
                /\ IsOpen(h)' = IsOpen(h)
                /\ env'[h] = env[h] /\ db'[h] = db[h] /\ path'[h] = path[h]
                /\ IsOpen(h) =>
                       \A model \in RestartModels :
                           ValidKey(model.id) => post_ret(h, model)' = Ok(model)
         /\ (h \in live /\ h \in live' /\ IsOpen(h)' # IsOpen(h)) =>
                OpOf(last') \in {"close_database", "reset_database"}]_vars

\* An Update of a stored record failed at its commit; the handle is open and
\* a Create on it would succeed.
C32_Witness ==
    /\ Faulted(last) /\ OpOf(last) = "put" /\ StepOf(last) = "commit"
    /\ ~RetOf(last).ok
    /\ IsOpen(HandleOf(last))
    /\ post_ret(HandleOf(last), ParamOf(last)) = Ok(ParamOf(last))

\* C33 (one transaction per operation, always ended): an operation begins its
\* transaction once, on entry, and on every return path (commit, return on
\* absence, error) the transaction has ended before the operation returns: a
\* thread that has returned does not hold the write lock.
C33_TransactionEnded ==
    [][\A t \in Threads :
         /\ (pc[t] # "body" /\ pc'[t] = "body") => pc[t] = "idle"
         /\ pc'[t] \in {"idle", "done"} => writer' # t
         /\ (pc[t] # "done" /\ pc'[t] = "done" /\ TxnOp(txn[t]) \in WriteOps) =>
                writer = t /\ writer' = None
         /\ (\A u \in Threads : pc'[u] \in {"idle", "done"}) => writer' = None]_vars

\* A write operation has returned an error and another thread holds the
\* write lock after it.
C33_Witness ==
    \E t \in Threads, u \in Threads :
        /\ pc[t] = "done" /\ TxnOp(txn[t]) \in WriteOps /\ ~TxnRet(txn[t]).ok
        /\ u # t /\ writer = u /\ pc[u] = "commit"
        /\ TxnBegun(txn[u]) = TxnBegun(txn[t])

\* C34 (decode and encode failures are SerializationError): when Create or
\* Update fails because the record could not be encoded, or ReadById because
\* the stored value could not be decoded, the response that crosses the
\* boundary is SerializationError.
C34_SerializationFailures ==
    /\ (Faulted(last) /\ OpOf(last) \in {"post", "put"}
            /\ StepOf(last) = "to_string") =>
           Response(last) = "SerializationError"
    /\ \A h \in Handles :
           (OpOf(last) = "get_by_id" /\ HandleOf(last) = h /\ ~Faulted(last)
                /\ IsOpen(h) /\ ParamOf(last) \in DOMAIN TableOf(h)
                /\ TableOf(h)[ParamOf(last)] \in ForeignValues) =>
               Response(last) = "SerializationError"

\* C35 (closed is terminal): once Close has succeeded on a handle, no later
\* operation on that handle, Reset and Close included, makes a store operation
\* on it succeed again; only a new Init gives a usable handle.
C35_ClosedIsTerminal ==
    [][\A h \in Handles :
         (h \in live /\ ~IsOpen(h) /\ HandleOf(last') = h
             /\ OpOf(last') \in StoreOps \cup {"reset_database", "close_database"}) =>
             /\ OpOf(last') \in StoreOps => ~RetOf(last').ok
             /\ ~get_ret(h)'.ok
             /\ \A id \in LifecycleIds : ~get_by_id_ret(h, id)'.ok
             /\ \A model \in LifecycleModels : ~post_ret(h, model)'.ok]_vars

\* C36 (key equals id): in every state reached by Init, Create, Update,
\* Delete, ClearAll, Reset and Close, every entry of every table is stored
\* under the id of the record its value encodes, so ReadById(k) never returns
\* a record with another id.
C36_KeyEqualsId ==
    /\ \A i \in Inodes :
           MAIN_DB_NAME \in DOMAIN disk[i] =>
               \A k \in DOMAIN disk[i][MAIN_DB_NAME] :
                   /\ Deserialize(disk[i][MAIN_DB_NAME][k]).ok
                   /\ Deserialize(disk[i][MAIN_DB_NAME][k]).val.id = k
    /\ \A h \in Handles, k \in Ids :
           (get_by_id_ret(h, k).ok /\ get_by_id_ret(h, k).val # NoneOpt) =>
               get_by_id_ret(h, k).val[1].id = k
    /\ (OpOf(last) = "get_by_id" /\ RetOf(last).ok /\ RetOf(last).val # NoneOpt) =>
           RetOf(last).val[1].id = ParamOf(last)

\* ReadById returned a record from a table of two that an Update has changed.
C36_Witness ==
    /\ OpOf(last) = "get_by_id" /\ RetOf(last).ok /\ RetOf(last).val # NoneOpt
    /\ RetOf(last).val[1].hash = "h2"
    /\ Cardinality(DOMAIN TableOf(HandleOf(last))) = 2

\* The threads that have called Delete(id).
Deleters(id) ==
    {t \in Started : TxnOp(txn[t]) = "delete_by_id" /\ TxnArg(txn[t]) = id}

\* No thread has called Create for `id`.
NoCreateOf(id) ==
    \A u \in Started : TxnOp(txn[u]) = "post" => TxnArg(txn[u]).id # id

\* The record under `id` was stored when the first of the Deletes began.
ExistsAtFirst(id) ==
    \E t \in Deleters(id) :
        /\ \A u \in Deleters(id) : TxnBegun(txn[t]) <= TxnBegun(txn[u])
        /\ id \in DOMAIN commits[TxnBegun(txn[t])]

\* C37 (concurrent deletes of one record): when two or more threads call
\* Delete(id) concurrently on the shared handle for an id that exists, and no
\* Create of that id runs concurrently, exactly one of the calls returns true,
\* the others return false, and the record is absent afterwards.
C37_ConcurrentDeletes ==
    \A id \in ThreadIds :
        (/\ Cardinality(Deleters(id)) >= 2
         /\ \A t \in Deleters(id) : pc[t] = "done"
         /\ NoCreateOf(id)
         /\ ExistsAtFirst(id)) =>
            /\ Cardinality({t \in Deleters(id) : TxnRet(txn[t]) = Ok(TRUE)}) = 1
            /\ \A t \in Deleters(id) : TxnRet(txn[t]) \in {Ok(TRUE), Ok(FALSE)}
            /\ id \notin DOMAIN TableOf(SharedHandle)
            /\ get_by_id_ret(SharedHandle, id) = Ok(NoneOpt)

\* All three threads have deleted the same stored record: one true, two false.
C37_Witness ==
    /\ Cardinality(Deleters("a")) = 3
    /\ \A t \in Threads : pc[t] = "done"
    /\ "a" \in DOMAIN commits[1]
    /\ Cardinality({t \in Threads : TxnRet(txn[t]) = Ok(FALSE)}) = 2

\* The threads that have called a write operation.
Writers == {t \in Started : TxnOp(txn[t]) \in WriteOps}

\* C38 (Update never resurrects a deleted record): when Update(r) and
\* Delete(r.id) run concurrently on the shared handle for an id that exists,
\* then in every interleaving, once both have returned, Delete has returned
\* true and the record is absent; Update has returned Some(r) if its
\* transaction came before the Delete's, and None otherwise.
C38_NoResurrection ==
    \A u \in Threads, d \in Threads :
        (/\ Writers = {u, d} /\ u # d
         /\ pc[u] = "done" /\ pc[d] = "done"
         /\ TxnOp(txn[u]) = "put" /\ TxnOp(txn[d]) = "delete_by_id"
         /\ TxnArg(txn[u]).id = TxnArg(txn[d])
         /\ TxnArg(txn[d]) \in DOMAIN commits[1]) =>
            /\ TxnRet(txn[d]) = Ok(TRUE)
            /\ TxnArg(txn[d]) \notin DOMAIN TableOf(SharedHandle)
            /\ get_by_id_ret(SharedHandle, TxnArg(txn[d])) = Ok(NoneOpt)
            /\ TxnRet(txn[u]) =
                   (IF TxnBegun(txn[u]) < TxnBegun(txn[d])
                    THEN Ok(Some(TxnArg(txn[u]))) ELSE Ok(NoneOpt))

\* The Delete came first: the Update found nothing and returned None, while
\* a third thread was reading.
C38_Witness ==
    \E u \in Threads, d \in Threads :
        /\ Writers = {u, d} /\ u # d
        /\ pc[u] = "done" /\ pc[d] = "done"
        /\ TxnOp(txn[u]) = "put" /\ TxnOp(txn[d]) = "delete_by_id"
        /\ TxnArg(txn[u]).id = TxnArg(txn[d])
        /\ TxnArg(txn[d]) \in DOMAIN commits[1]
        /\ TxnBegun(txn[d]) < TxnBegun(txn[u])
        /\ TxnRet(txn[u]) = Ok(NoneOpt)
        /\ Cardinality(Started) = 3

\* The id a Create, an Update or a Delete names.
TargetOf(c) == IF OpOf(c) \in {"post", "put"} THEN ParamOf(c).id ELSE ParamOf(c)

\* C39 (per-key frame): Create(r), Update(r) and Delete(id), successful or
\* not, change at most the entry under the id they name: under every other id
\* the stored entry and the result of ReadById are the same before and after
\* the call; ReadById and ReadAll change no stored entry.
C39_PerKeyFrame ==
    [][\A h \in Handles :
         /\ (OpOf(last') \in {"post", "put", "delete_by_id"}
                /\ HandleOf(last') = h) =>
                \A id \in Ids \ {TargetOf(last')} :
                    /\ get_by_id_ret(h, id)' = get_by_id_ret(h, id)
                    /\ IsOpen(h) =>
                           /\ (id \in DOMAIN TableOf(h)') = (id \in DOMAIN TableOf(h))
                           /\ id \in DOMAIN TableOf(h) =>
                                  TableOf(h)'[id] = TableOf(h)[id]
         /\ (OpOf(last') \in {"get_by_id", "get"} /\ HandleOf(last') = h) =>
                disk' = disk]_vars

\* An Update wrote its record in a store that holds, under another id, a
\* value that does not decode.
C39_Witness ==
    /\ OpOf(last) = "put" /\ RetOf(last) = Ok(Some(ParamOf(last)))
    /\ IsOpen(HandleOf(last))
    /\ \E id \in Ids \ {ParamOf(last).id} :
           /\ id \in DOMAIN TableOf(HandleOf(last))
           /\ ~get_by_id_ret(HandleOf(last), id).ok

====
